---- MODULE Spec2Model ----
(***************************************************************************)
(* The posts router of the posting application                             *)
(* (src/server/api/routers/posts.ts): getAll, getPostsByUserId and create, *)
(* together with the collaborators the handlers call: the post store, the  *)
(* identity directory and the rate limiter, and the request context that   *)
(* the server-side helper (src/server/helpers/ssgHelper.ts) builds.        *)
(*                                                                         *)
(* Time is counted in seconds.  A create call is two steps, split at its   *)
(* await of the store write: the limiter's test-and-consume, then the      *)
(* insert.  The two queries are one step each.  The limiter is the policy  *)
(* its configuration declares, 3 grants per key in a sliding minute, kept  *)
(* as the log of the grant times of each key.  resp is the outcome of the  *)
(* latest handler step (PENDING: past the limiter, awaiting the store);    *)
(* grants is the history of the limiter's grants.                          *)
(***************************************************************************)
EXTENDS Integers, Sequences, FiniteSets, Bags, TLC

\* ---- program constants ----
Tokens == 3
WindowSec == 60
MinContent == 1
MaxContent == 255
Take == 100
UserListLimit == 100

\* ---- bounds of the model ----
MaxClock == 30
MaxTime == 61
MaxCreates == 1
MaxBurst == 4
MaxInFlight == 3
TickSteps == {30, 31}

\* ---- values ----
Null == "null"
Callers == {"u1", "u2"}
Keys == Callers \cup {Null}
UserOrder == <<"u1", "u2", "u3">>
UserIds == {UserOrder[i] : i \in 1..Len(UserOrder)}
Deletable == {"u3"}
Ties == {"asc", "desc"}

Str(c, n) == [i \in 1..n |-> c]
Contents == {Str("a", 0), Str("a", 1), Str("b", MaxContent), Str("b", MaxContent + 1)}
BurstContents == {Str("a", 0), Str("a", 1)}

Min(a, b) == IF a < b THEN a ELSE b

VARIABLES
    now,      \* the clock, in seconds
    store,    \* the Post table, in insertion order
    users,    \* the ids the identity directory knows
    limiter,  \* per key, the grant times the limiter still counts
    grants,   \* per key, the times of all grants so far (history)
    pending,  \* create calls past the limiter, awaiting the store write
    resp      \* the outcome of the latest handler step

vars == <<now, store, users, limiter, grants, pending, resp>>

\* ---- request context ----
ssgContext == [currentUserId |-> Null]
Contexts == {ssgContext} \cup {[currentUserId |-> u] : u \in Callers}

\* ---- responses ----
NoResp == [op |-> "none", caller |-> Null, arg |-> <<>>, kind |-> "none",
           body |-> <<>>, trace |-> <<>>]
Response(op, caller, arg, kind, body, trace) ==
    [op |-> op, caller |-> caller, arg |-> arg, kind |-> kind,
     body |-> body, trace |-> trace]

\* ---- identity directory ----
NoUser == [id |-> Null]
User(u) == [id |-> u, username |-> u, emailAddresses |-> <<u>>]
filterUsersForClient(user) == [id |-> user.id, username |-> user.username]
getUser(id) == IF id \in users THEN User(id) ELSE NoUser
getUserList(userId, limit) ==
    LET wanted == {userId[i] : i \in 1..Len(userId)}
        found == SelectSeq(UserOrder, LAMBDA u : u \in users /\ u \in wanted)
    IN  [i \in 1..Min(limit, Len(found)) |-> User(found[i])]

\* ---- post store ----
Post(id, content, authorId, createdAt) ==
    [id |-> id, content |-> content, authorId |-> authorId, createdAt |-> createdAt]
\* posts the table holds when the server starts: more than one page, the two
\* newest with the same creation time
SeedAuthor(i, n) == IF i = n THEN "u3" ELSE IF i = n - 1 THEN "u2" ELSE "u1"
SeedTime(i, n) == IF i = n THEN 0 - WindowSec ELSE (i - n) * WindowSec
Seed(n) == [i \in 1..n |-> Post(i, Str("a", 1), SeedAuthor(i, n), SeedTime(i, n))]
SeedPosts == Take + 2

\* ORDER BY createdAt DESC; rows of equal createdAt come in either id order
Before(p, q, tie) ==
    \/ p.createdAt > q.createdAt
    \/ /\ p.createdAt = q.createdAt
       /\ IF tie = "asc" THEN p.id < q.id ELSE p.id > q.id
RECURSIVE Merge(_, _, _)
Merge(a, b, tie) ==
    IF a = <<>> THEN b
    ELSE IF b = <<>> THEN a
    ELSE IF Before(a[Len(a)], b[1], tie) THEN a \o b
    ELSE IF Before(b[Len(b)], a[1], tie) THEN b \o a
    ELSE LET mid == (Len(a) + 1) \div 2
             c == Cardinality({j \in 1..Len(b) : Before(b[j], a[mid], tie)})
         IN  Merge(SubSeq(a, 1, mid - 1), SubSeq(b, 1, c), tie)
                \o <<a[mid]>>
                \o Merge(SubSeq(a, mid + 1, Len(a)), SubSeq(b, c + 1, Len(b)), tie)
RECURSIVE OrderByCreatedAtDesc(_, _, _, _)
OrderByCreatedAtDesc(rows, lo, hi, tie) ==
    IF lo > hi THEN <<>>
    ELSE IF lo = hi THEN <<rows[lo]>>
    ELSE LET mid == (lo + hi) \div 2
         IN  Merge(OrderByCreatedAtDesc(rows, lo, mid, tie),
                   OrderByCreatedAtDesc(rows, mid + 1, hi, tie), tie)
findMany_NoTake(where, take, tie) ==
    LET rows == SelectSeq(store, LAMBDA p : where = Null \/ p.authorId = where)
    IN  OrderByCreatedAtDesc(rows, 1, Len(rows), tie)
findMany_NoWhere(where, take, tie) ==
    LET sorted == OrderByCreatedAtDesc(store, 1, Len(store), tie)
    IN  SubSeq(sorted, 1, Min(take, Len(sorted)))
findMany(where, take, tie) ==
    LET rows == SelectSeq(store, LAMBDA p : where = Null \/ p.authorId = where)
        sorted == OrderByCreatedAtDesc(rows, 1, Len(rows), tie)
    IN  SubSeq(sorted, 1, Min(take, Len(sorted)))
postCreate_Trimmed(authorId, content) ==
    Post(Len(store) + 1, SubSeq(content, 1, Min(Len(content), MaxContent - 1)), authorId, now)
postCreate(authorId, content) == Post(Len(store) + 1, content, authorId, now)

\* ---- rate limiter ----
\* slidingWindow(3, "1 m"): a key is granted while fewer than Tokens of its
\* grants are younger than WindowSec
Live(log, t) == SelectSeq(log, LAMBDA x : t - x < WindowSec)
ratelimit_OffByOne(key) ==
    LET live == Live(limiter[key], now)
    IN  IF Len(live) <= Tokens
        THEN [success |-> TRUE, log |-> Append(live, now)]
        ELSE [success |-> FALSE, log |-> live]
ratelimit(key) ==
    LET live == Live(limiter[key], now)
    IN  IF Len(live) < Tokens
        THEN [success |-> TRUE, log |-> Append(live, now)]
        ELSE [success |-> FALSE, log |-> live]

\* ---- author enrichment ----
Find(us, authorId) ==
    IF \E i \in 1..Len(us) : us[i].id = authorId
    THEN us[CHOOSE i \in 1..Len(us) :
                /\ us[i].id = authorId
                /\ \A j \in 1..(i - 1) : us[j].id # authorId]
    ELSE NoUser
addUserDataToPosts_Drop(posts) ==
    LET list == getUserList([i \in 1..Len(posts) |-> posts[i].authorId], UserListLimit)
        us == [i \in 1..Len(list) |-> filterUsersForClient(list[i])]
        known == SelectSeq(posts, LAMBDA p : Find(us, p.authorId) # NoUser)
    IN  [kind |-> "OK",
         body |-> [i \in 1..Len(known) |->
                      [post |-> known[i], author |-> Find(us, known[i].authorId)]]]
addUserDataToPosts(posts) ==
    LET list == getUserList([i \in 1..Len(posts) |-> posts[i].authorId], UserListLimit)
        us == [i \in 1..Len(list) |-> filterUsersForClient(list[i])]
        fullPosts == [i \in 1..Len(posts) |->
                         [post |-> posts[i], author |-> Find(us, posts[i].authorId)]]
    IN  IF \E i \in 1..Len(posts) : fullPosts[i].author = NoUser
        THEN [kind |-> "INTERNAL_SERVER_ERROR", body |-> <<>>]
        ELSE [kind |-> "OK", body |-> fullPosts]

\* ---- procedures ----
\* privateProcedure: the guard runs first, then the input parser chained to it
enforceUserIsAuthed(ctx) == ctx.currentUserId # Null
ContentValid_OffByOne(content) ==
    Len(content) >= MinContent /\ Len(content) <= MaxContent + 1
ContentValid(content) == Len(content) >= MinContent /\ Len(content) <= MaxContent

Init ==
    /\ now = 0
    /\ store \in {<<>>, Seed(SeedPosts)}
    /\ users = UserIds
    /\ limiter = [k \in Keys |-> <<>>]
    /\ grants = [k \in Keys |-> <<>>]
    /\ pending = EmptyBag
    /\ resp = NoResp

GetAll(tie) ==
    LET posts == findMany(Null, Take, tie)
        full == addUserDataToPosts(posts)
    IN  /\ resp' = Response("getAll", Null, <<>>, full.kind, full.body,
                            <<"post.findMany", "users.getUserList">>)
        /\ UNCHANGED <<now, store, users, limiter, grants, pending>>

GetPostsByUserId_NoCheck(id, tie) ==
    LET posts == findMany(id, Take, tie)
        full == addUserDataToPosts(posts)
    IN  /\ resp' = Response("getPostsByUserId", Null, id, full.kind, full.body,
                            <<"users.getUser", "post.findMany", "users.getUserList">>)
        /\ UNCHANGED <<now, store, users, limiter, grants, pending>>

GetPostsByUserId(id, tie) ==
    LET author == getUser(id)
    IN  /\ IF author = NoUser
           THEN resp' = Response("getPostsByUserId", Null, id, "INTERNAL_SERVER_ERROR",
                                 <<>>, <<"users.getUser">>)
           ELSE LET posts == findMany(author.id, Take, tie)
                    full == addUserDataToPosts(posts)
                IN  resp' = Response("getPostsByUserId", Null, id, full.kind, full.body,
                                     <<"users.getUser", "post.findMany", "users.getUserList">>)
        /\ UNCHANGED <<now, store, users, limiter, grants, pending>>

Granted == Len(grants[Null]) + Len(grants["u1"]) + Len(grants["u2"])
CanCreate(budget) ==
    /\ Granted < budget
    /\ BagCardinality(pending) < MaxInFlight

CreateBegin_Public(ctx, content, budget) ==
    /\ CanCreate(budget)
    /\ IF ~ContentValid(content)
       THEN /\ resp' = Response("create", ctx.currentUserId, content, "BAD_REQUEST", <<>>, <<>>)
            /\ UNCHANGED <<limiter, grants, pending>>
       ELSE LET authorId == ctx.currentUserId
                r == ratelimit(authorId)
            IN  /\ limiter' = [limiter EXCEPT ![authorId] = r.log]
                /\ IF ~r.success
                   THEN /\ resp' = Response("create", authorId, content, "TOO_MANY_REQUESTS",
                                            <<>>, <<"ratelimit.limit">>)
                        /\ UNCHANGED <<grants, pending>>
                   ELSE /\ grants' = [grants EXCEPT ![authorId] = Append(@, now)]
                        /\ pending' = pending (+) SetToBag({[authorId |-> authorId,
                                                             content |-> content]})
                        /\ resp' = Response("create", authorId, content, "PENDING",
                                            <<>>, <<"ratelimit.limit">>)
    /\ UNCHANGED <<now, store, users>>

CreateBegin_ConstKey(ctx, content, budget) ==
    /\ CanCreate(budget)
    /\ IF ~enforceUserIsAuthed(ctx)
       THEN /\ resp' = Response("create", ctx.currentUserId, content, "UNAUTHORIZED", <<>>, <<>>)
            /\ UNCHANGED <<limiter, grants, pending>>
       ELSE IF ~ContentValid(content)
       THEN /\ resp' = Response("create", ctx.currentUserId, content, "BAD_REQUEST", <<>>, <<>>)
            /\ UNCHANGED <<limiter, grants, pending>>
       ELSE LET authorId == ctx.currentUserId
                r == ratelimit("u1")
            IN  /\ limiter' = [limiter EXCEPT !["u1"] = r.log]
                /\ IF ~r.success
                   THEN /\ resp' = Response("create", authorId, content, "TOO_MANY_REQUESTS",
                                            <<>>, <<"ratelimit.limit">>)
                        /\ UNCHANGED <<grants, pending>>
                   ELSE /\ grants' = [grants EXCEPT ![authorId] = Append(@, now)]
                        /\ pending' = pending (+) SetToBag({[authorId |-> authorId,
                                                             content |-> content]})
                        /\ resp' = Response("create", authorId, content, "PENDING",
                                            <<>>, <<"ratelimit.limit">>)
    /\ UNCHANGED <<now, store, users>>

CreateBegin_NoGate(ctx, content, budget) ==
    /\ CanCreate(budget)
    /\ IF ~enforceUserIsAuthed(ctx)
       THEN /\ resp' = Response("create", ctx.currentUserId, content, "UNAUTHORIZED", <<>>, <<>>)
            /\ UNCHANGED <<limiter, grants, pending>>
       ELSE IF ~ContentValid(content)
       THEN /\ resp' = Response("create", ctx.currentUserId, content, "BAD_REQUEST", <<>>, <<>>)
            /\ UNCHANGED <<limiter, grants, pending>>
       ELSE LET authorId == ctx.currentUserId
                r == ratelimit(authorId)
            IN  /\ limiter' = [limiter EXCEPT ![authorId] = r.log]
                /\ grants' = [grants EXCEPT ![authorId] = Append(@, now)]
                /\ pending' = pending (+) SetToBag({[authorId |-> authorId,
                                                     content |-> content]})
                /\ resp' = Response("create", authorId, content, "PENDING",
                                    <<>>, <<"ratelimit.limit">>)
    /\ UNCHANGED <<now, store, users>>

CreateBegin(ctx, content, budget) ==
    /\ CanCreate(budget)
    /\ IF ~enforceUserIsAuthed(ctx)
       THEN /\ resp' = Response("create", ctx.currentUserId, content, "UNAUTHORIZED", <<>>, <<>>)
            /\ UNCHANGED <<limiter, grants, pending>>
       ELSE IF ~ContentValid(content)
       THEN /\ resp' = Response("create", ctx.currentUserId, content, "BAD_REQUEST", <<>>, <<>>)
            /\ UNCHANGED <<limiter, grants, pending>>
       ELSE LET authorId == ctx.currentUserId
                r == ratelimit(authorId)
            IN  /\ limiter' = [limiter EXCEPT ![authorId] = r.log]
                /\ IF ~r.success
                   THEN /\ resp' = Response("create", authorId, content, "TOO_MANY_REQUESTS",
                                            <<>>, <<"ratelimit.limit">>)
                        /\ UNCHANGED <<grants, pending>>
                   ELSE /\ grants' = [grants EXCEPT ![authorId] = Append(@, now)]
                        /\ pending' = pending (+) SetToBag({[authorId |-> authorId,
                                                             content |-> content]})
                        /\ resp' = Response("create", authorId, content, "PENDING",
                                            <<>>, <<"ratelimit.limit">>)
    /\ UNCHANGED <<now, store, users>>

CreateInsert(req) ==
    /\ BagIn(req, pending)
    /\ LET post == postCreate(req.authorId, req.content)
       IN  /\ store' = Append(store, post)
           /\ resp' = Response("create", req.authorId, req.content, "OK", <<post>>,
                               <<"ratelimit.limit", "post.create">>)
    /\ pending' = pending (-) SetToBag({req})
    /\ UNCHANGED <<now, users, limiter, grants>>

\* the identity provider drops a user (outside the router)
DeleteUser(u) ==
    /\ u \in users
    /\ users' = users \ {u}
    /\ resp' = NoResp
    /\ UNCHANGED <<now, store, limiter, grants, pending>>

\* time passes
Tick(d, horizon) ==
    /\ now + d <= horizon
    /\ now' = now + d
    /\ resp' = NoResp
    /\ UNCHANGED <<store, users, limiter, grants, pending>>

Next ==
    \/ \E tie \in Ties : GetAll(tie)
    \/ \E id \in UserIds, tie \in Ties : GetPostsByUserId(id, tie)
    \/ \E ctx \in Contexts, content \in Contents : CreateBegin(ctx, content, MaxCreates)
    \/ \E req \in BagToSet(pending) : CreateInsert(req)
    \/ \E u \in Deletable : DeleteUser(u)
    \/ \E d \in TickSteps : Tick(d, MaxClock)

Spec == Init /\ [][Next]_vars

\* Bursts of create calls against an empty store
InitBurst ==
    /\ now = 0
    /\ store = <<>>
    /\ users = UserIds
    /\ limiter = [k \in Keys |-> <<>>]
    /\ grants = [k \in Keys |-> <<>>]
    /\ pending = EmptyBag
    /\ resp = NoResp

NextBurst ==
    \/ \E ctx \in Contexts, content \in BurstContents : CreateBegin(ctx, content, MaxBurst)
    \/ \E req \in BagToSet(pending) : CreateInsert(req)
    \/ \E d \in TickSteps : Tick(d, MaxTime)

SpecBurst == InitBurst /\ [][NextBurst]_vars

\* ---------------------------------------------------------------------------
\* Properties
\* ---------------------------------------------------------------------------
\* the lengths the claims call valid: 1 to 255 characters
ValidLength(content) == Len(content) \in MinContent..MaxContent
PostFields == {"id", "content", "authorId", "createdAt"}
PostsOf(r) == [i \in 1..Len(r.body) |-> r.body[i].post]
PostsBy(a) == Cardinality({i \in 1..Len(store) : store[i].authorId = a})
PendingBy(a) ==
    LET mine == {r \in BagToSet(pending) : r.authorId = a}
    IN  IF mine = {} THEN 0 ELSE BagCardinality([r \in mine |-> pending[r]])
RecentGrants(a) ==
    Cardinality({i \in 1..Len(grants[a]) : now - grants[a][i] < WindowSec})
GrantsInLastMinute(a) ==
    Cardinality({i \in 1..Len(grants[a]) : now - grants[a][i] <= WindowSec})
SortedDesc(posts) ==
    \A i \in 1..(Len(posts) - 1) : posts[i].createdAt >= posts[i + 1].createdAt
InStore(posts) ==
    \A i \in 1..Len(posts) :
        /\ posts[i].id \in 1..Len(store)
        /\ store[posts[i].id] = posts[i]
        /\ \A j \in 1..Len(posts) : posts[j].id = posts[i].id => j = i
\* the step that led to resp' consulted the limiter: an authenticated create
\* call with valid content, before its store write
ReachedLimiter(r) ==
    /\ r.op = "create"
    /\ r.kind # "OK"
    /\ r.caller # Null
    /\ ValidLength(r.arg)

\* C1: a create call by an author who was granted 3 calls less than 60 seconds
\* ago is rejected with TOO_MANY_REQUESTS; a create call by an author with
\* fewer than 3 granted calls in the last 60 seconds (the window has elapsed
\* for the others) passes the limiter.  A call is timed at its limiter check.
C1_FourthCall ==
    [][ReachedLimiter(resp') =>
          /\ RecentGrants(resp'.caller) >= Tokens => resp'.kind = "TOO_MANY_REQUESTS"
          /\ GrantsInLastMinute(resp'.caller) < Tokens => resp'.kind = "PENDING"]_vars
C1_Witness ==
    /\ resp.op = "create"
    /\ resp.kind = "TOO_MANY_REQUESTS"
    /\ now > 0
    /\ RecentGrants(resp.caller) = Tokens

\* C2: the limiter is consulted with the author's id before the store write;
\* when it reports failure the call is rejected with TOO_MANY_REQUESTS and the
\* stored posts are unchanged.
C2_Gate ==
    [][/\ (ReachedLimiter(resp') /\ ~ratelimit(resp'.caller).success) =>
              /\ resp'.kind = "TOO_MANY_REQUESTS"
              /\ resp'.trace = <<"ratelimit.limit">>
              /\ store' = store /\ pending' = pending /\ grants' = grants
       /\ (resp'.op = "create" /\ resp'.kind = "OK") =>
              /\ resp'.trace = <<"ratelimit.limit", "post.create">>
              /\ Len(grants[resp'.caller]) > PostsBy(resp'.caller)]_vars
C2_Witness ==
    /\ resp.op = "create"
    /\ resp.kind = "TOO_MANY_REQUESTS"
    /\ Len(store) = Tokens
    /\ pending = EmptyBag

\* C3: create with valid content under a context without a current user is
\* rejected before the limiter and the store: nothing is inserted or queued.
C3_Unauthenticated ==
    [][(resp'.op = "create" /\ resp'.caller = Null /\ ValidLength(resp'.arg)) =>
          /\ resp'.kind = "UNAUTHORIZED"
          /\ resp'.trace = <<>>
          /\ store' = store /\ pending' = pending
          /\ limiter' = limiter /\ grants' = grants]_vars
C3_Witness ==
    /\ resp.op = "create"
    /\ resp.caller = ssgContext.currentUserId
    /\ Len(resp.arg) = MaxContent
    /\ resp.kind = "UNAUTHORIZED"

\* C4 as stated: every create with content of length 0 or above 255 is
\* rejected with a validation error.
C4_Original ==
    (resp.op = "create" /\ ~ValidLength(resp.arg)) => resp.kind = "BAD_REQUEST"
\* C4 amended: create with content of length 0 or above 255 is rejected before
\* any side effect (limiter not consulted, nothing inserted); the rejection is
\* a validation error when the caller is authenticated, and the
\* authentication error otherwise.
C4_Validation ==
    [][(resp'.op = "create" /\ ~ValidLength(resp'.arg)) =>
          /\ resp'.kind = IF resp'.caller = Null THEN "UNAUTHORIZED" ELSE "BAD_REQUEST"
          /\ resp'.trace = <<>>
          /\ store' = store /\ pending' = pending
          /\ limiter' = limiter /\ grants' = grants]_vars
C4_Witness ==
    /\ resp.op = "create"
    /\ resp.caller # Null
    /\ Len(resp.arg) = MaxContent + 1
    /\ resp.kind = "BAD_REQUEST"

\* C5: a successful create inserts exactly one post, with the input content
\* and the caller of the request context as author, and returns that record,
\* which carries no author profile.
C5_Created ==
    [][(resp'.op = "create" /\ resp'.kind = "OK") =>
          /\ Len(resp'.body) = 1
          /\ store' = Append(store, resp'.body[1])
          /\ resp'.body[1].content = resp'.arg
          /\ resp'.body[1].authorId = resp'.caller
          /\ resp'.caller \in Callers
          /\ DOMAIN resp'.body[1] = PostFields
          /\ pending = pending' (+) SetToBag({[authorId |-> resp'.caller,
                                               content |-> resp'.arg]})]_vars
C5_Witness ==
    /\ resp.op = "create"
    /\ resp.kind = "OK"
    /\ Len(resp.arg) = MaxContent
    /\ Len(store) > SeedPosts

\* C6: getAll returns at most 100 posts, in descending order of creation
\* time, and no stored post left out is newer than a returned one.
C6_GetAll ==
    (resp.op = "getAll" /\ resp.kind = "OK") =>
        LET posts == PostsOf(resp)
        IN  /\ Len(posts) = Min(Take, Len(store))
            /\ InStore(posts)
            /\ SortedDesc(posts)
            /\ \A i \in 1..Len(store) :
                   (\A j \in 1..Len(posts) : posts[j].id # i) =>
                       \A j \in 1..Len(posts) : store[i].createdAt <= posts[j].createdAt
C6_Witness ==
    /\ resp.op = "getAll"
    /\ resp.kind = "OK"
    /\ Len(store) > SeedPosts
    /\ Len(resp.body) = Take

\* C7: enrichment is all or nothing: a listing that reached the enrichment
\* either fails with INTERNAL_SERVER_ERROR and no body, exactly when a fetched
\* post has an author the directory does not know, or returns one FullPost per
\* fetched post, in order, each with the profile of its post's author.
Fetched(r) ==
    {findMany(IF r.op = "getAll" THEN Null ELSE r.arg, Take, tie) : tie \in Ties}
C7_AllOrNothing ==
    (resp.op \in {"getAll", "getPostsByUserId"} /\ Len(resp.trace) > 1) =>
        IF resp.kind = "OK"
        THEN /\ PostsOf(resp) \in Fetched(resp)
             /\ \A i \in 1..Len(resp.body) :
                    /\ resp.body[i].author # NoUser
                    /\ resp.body[i].author.id = resp.body[i].post.authorId
                    /\ resp.body[i].author.id \in users
        ELSE /\ resp.kind = "INTERNAL_SERVER_ERROR"
             /\ resp.body = <<>>
             /\ \E posts \in Fetched(resp) :
                    \E i \in 1..Len(posts) : posts[i].authorId \notin users
C7_Witness ==
    /\ resp.op = "getAll"
    /\ resp.kind = "INTERNAL_SERVER_ERROR"
    /\ \E posts \in Fetched(resp) :
           /\ \E i \in 1..Len(posts) : posts[i].authorId \notin users
           /\ \E i \in 1..Len(posts) : posts[i].authorId \in users

\* C8: getPostsByUserId with an id the directory does not know fails with
\* INTERNAL_SERVER_ERROR after the directory lookup alone: the post store is
\* not queried.
C8_UnknownUser ==
    (resp.op = "getPostsByUserId" /\ resp.arg \notin users) =>
        /\ resp.kind = "INTERNAL_SERVER_ERROR"
        /\ resp.body = <<>>
        /\ resp.trace = <<"users.getUser">>
C8_Witness ==
    /\ resp.op = "getPostsByUserId"
    /\ resp.arg \notin users
    /\ PostsBy(resp.arg) > 0
    /\ resp.kind = "INTERNAL_SERVER_ERROR"

\* C9: getPostsByUserId for a user of the directory returns at most 100
\* FullPosts, all of them posts of that user, in descending order of creation
\* time.
C9_ByUser ==
    (resp.op = "getPostsByUserId" /\ resp.arg \in users) =>
        LET posts == PostsOf(resp)
        IN  /\ resp.kind = "OK"
            /\ Len(posts) = Min(Take, PostsBy(resp.arg))
            /\ InStore(posts)
            /\ \A i \in 1..Len(posts) : posts[i].authorId = resp.arg
            /\ SortedDesc(posts)
C9_Witness ==
    /\ resp.op = "getPostsByUserId"
    /\ resp.kind = "OK"
    /\ PostsBy(resp.arg) > Take
    /\ Len(resp.body) = Take
    /\ \E i \in 1..Len(store) : store[i].authorId # resp.arg

\* C10 as stated: at most 3 posts of one author are inserted within any
\* rolling minute.
C10_Original ==
    \A a \in Callers : \A i \in 1..Len(store) :
        store[i].authorId = a =>
            Cardinality({j \in 1..Len(store) :
                            /\ store[j].authorId = a
                            /\ store[i].createdAt - store[j].createdAt >= 0
                            /\ store[i].createdAt - store[j].createdAt < WindowSec}) <= Tokens
\* C10 amended: under any interleaving, at most 3 create calls of one author
\* pass the limiter within any rolling minute, every inserted or awaited post
\* is one of these calls, and an author's allowance depends on that author's
\* own granted calls only.  (The inserts land later than the grants.)
C10_GrantsPerWindow ==
    \A a \in Callers :
        /\ \A i, j \in 1..Len(grants[a]) :
               j - i >= Tokens => grants[a][j] - grants[a][i] >= WindowSec
        /\ PostsBy(a) + PendingBy(a) = Len(grants[a])
        /\ Live(limiter[a], now) = Live(grants[a], now)
C10_Witness ==
    /\ PendingBy("u1") >= 2
    /\ PendingBy("u2") >= 1
    /\ Len(grants["u1"]) = Tokens
    /\ now > 0

====
